---- MODULE Spec2Model ----
(***************************************************************************)
(* Model of tools/obj_to_h.py (vindar/tgx): the chain builder              *)
(* reorderObjectTriangles, the attribute renumberer reorderVNTarrays and   *)
(* the face-stream encoder of savemodel.                                   *)
(*                                                                         *)
(* Conventions.  Attribute indices, triangle indices and flags keep their  *)
(* 0-based Python values; TLA+ sequences are 1-based, so Python ar[i] is   *)
(* ar[i+1] here.  A corner is <<v,t,n>>, a triangle is a 3-tuple of        *)
(* corners, a chain entry is the pair <<n, T>> of the source.  Python None *)
(* is NoneT (no triangle) or NoneN (no flag).  An attribute array is the   *)
(* sequence of the original positions of its entries: the coordinates      *)
(* themselves are never read by the modelled code.                         *)
(***************************************************************************)
EXTENDS Integers, Sequences, FiniteSets, TLC

\* ---------------------------------------------------------------- bounds
MaxV == 3       \* length of the vertex array of the enumerated meshes
MaxTri == 3     \* triangles of an enumerated mesh, all objects together
MaxObj == 2     \* objects of an enumerated mesh
MaxTexTri == 2  \* triangles of an enumerated mesh with texcoords or normals
MaxSingles == 4 \* triangles sharing no edge of a small mesh handed to savemodel
MaxStrip == 3   \* triangles of the strip of a small mesh handed to savemodel
MaxLoadTri == 2 \* triangles of a mesh with array entries no face refers to
MaxExtra == 1   \* texcoords (normals) of a mesh beyond those its palette holds
CubeSeeds == 2  \* triangles of the cube file put first, in any rotation
MaxFairTri == 4 \* triangles of a mesh of the scheduled script

\* ------------------------------------------------------ program constants
MAXCHAINLEN == 65535
MAXVERTICE == 32767
MAXNORMAL == 65535
MAXTEXTURE == 65535
FLAGBIT == 32768

NoneT == <<>>
NoneN == -1

\* ================================================================ helpers
\* invertEdge returning the edge as it is
invertEdge_Same(E) == <<E[1], E[2]>>

\* lines 27-28
invertEdge(E) == <<E[2], E[1]>>

\* edge number i (0, 1 or 2) of the triangle T
edge(T, i) ==
    IF i = 0 THEN <<T[1], T[2]>>
    ELSE IF i = 1 THEN <<T[2], T[3]>>
    ELSE <<T[3], T[1]>>

\* the edge after E in T; NoneT stands for the error() call of the source
edgeAfter(T, E) ==
    IF E = <<T[1], T[2]>> THEN <<T[2], T[3]>>
    ELSE IF E = <<T[2], T[3]>> THEN <<T[3], T[1]>>
    ELSE IF E = <<T[3], T[1]>> THEN <<T[1], T[2]>>
    ELSE NoneT

\* rotateTriangleStartEdge with the two shifts of lines 64 and 66 exchanged
rotateTriangleStartEdge_Swapped(T, E) ==
    IF <<T[1], T[2]>> = E THEN T
    ELSE IF <<T[2], T[3]>> = E THEN <<T[3], T[1], T[2]>>
    ELSE IF <<T[3], T[1]>> = E THEN <<T[2], T[3], T[1]>>
    ELSE NoneT

\* rotate T to start with edge E; NoneT stands for the error() call
rotateTriangleStartEdge(T, E) ==
    IF <<T[1], T[2]>> = E THEN T
    ELSE IF <<T[2], T[3]>> = E THEN <<T[2], T[3], T[1]>>
    ELSE IF <<T[3], T[1]>> = E THEN <<T[3], T[1], T[2]>>
    ELSE NoneT

\* ================================================================= state
VARIABLES
    vertice, texture, normal,   \* the three global attribute arrays
    obj,                        \* the objects: lists of triangles (loadObjFile)
    R,                          \* main: the chain lists of the objects done
    oi,                         \* main: index of the object being reordered
    availT, dicedge, firstTavail, nbTavail,  \* reorderObjectTriangles locals
    Rc,                         \* reorderObjectTriangles: its local list R
    C, T, E,                    \* reorderObjectTriangles: the chain being built
    vi_v, vi_t, vi_n,           \* reorderVNTarrays: the three permutations
    fopen, fhead, faces,        \* savemodel: file opened, header and attribute
                                \* arrays written, face arrays written so far
    nbw, tl,                    \* savemodel: elements written / declared
    info,                       \* savemodel: the mesh records written
    pc, err                     \* control point; message of the error() call

vars == <<vertice, texture, normal, obj, R, oi, availT, dicedge, firstTavail,
          nbTavail, Rc, C, T, E, vi_v, vi_t, vi_n, fopen, fhead, faces, nbw,
          tl, info, pc, err>>

meshVars == <<vertice, texture, normal>>
builderVars == <<availT, dicedge, firstTavail, nbTavail, Rc, C, T, E>>
permVars == <<vi_v, vi_t, vi_n>>
saveVars == <<fopen, fhead, faces, nbw, tl, info>>

\* ======================================================== chain builder
\* Lookup by the vertex indexes of the two corners alone: the list of e, or
\* else the list of some edge over the same two vertex positions
Lookup_ByVertex(d, e) ==
    LET ks == {k \in DOMAIN d : k[1][1] = e[1][1] /\ k[2][1] = e[2][1]}
    IN  IF e \in DOMAIN d /\ d[e] # <<>> THEN d[e]
        ELSE IF ks = {} THEN <<>>
        ELSE d[CHOOSE k \in ks : \A k2 \in ks : Len(d[k2]) <= Len(d[k])]

\* line 360, 373: dicedge[e] of a defaultdict with default []; the key e is a
\* pair of corners, each the (v, t, n) tuple of the file
Lookup(d, e) == IF e \in DOMAIN d THEN d[e] ELSE <<>>

DicAppend(d, e, i) ==
    IF e \in DOMAIN d THEN [d EXCEPT ![e] = Append(@, i)]
    ELSE d @@ (e :> <<i>>)

\* lines 363-366: the edge -> triangle indexes mapping of the triangles
\* o[1..k], built in index order, three appends per triangle
RECURSIVE BuildDicedge(_, _)
BuildDicedge(o, k) ==
    IF k = 0 THEN <<>>
    ELSE LET d0 == BuildDicedge(o, k - 1)
             d1 == DicAppend(d0, edge(o[k], 0), k - 1)
             d2 == DicAppend(d1, edge(o[k], 1), k - 1)
         IN  DicAppend(d2, edge(o[k], 2), k - 1)

\* PopAvailable giving up at the first index popped that is used (the loop
\* of line 376 run once)
PopAvailable_OnePop(L, av) ==
    IF Len(L) = 0 THEN [i |-> -1, L |-> L]
    ELSE LET i == L[Len(L)]
             rest == SubSeq(L, 1, Len(L) - 1)
         IN  IF av[i + 1] # NoneT THEN [i |-> i, L |-> rest]
             ELSE [i |-> -1, L |-> rest]

\* lines 376-383: pop indexes from the end of L until one is available;
\* i = -1 when the list runs out
RECURSIVE PopAvailable(_, _)
PopAvailable(L, av) ==
    IF Len(L) = 0 THEN [i |-> -1, L |-> L]
    ELSE LET i == L[Len(L)]
             rest == SubSeq(L, 1, Len(L) - 1)
         IN  IF av[i + 1] # NoneT THEN [i |-> i, L |-> rest]
             ELSE PopAvailable(rest, av)

\* findTriangleWithEdge without line 380: the triangle found stays available
findTriangleWithEdge_NoMark(e, st) ==
    LET p == PopAvailable(Lookup(st.dicedge, e), st.availT)
        d == IF e \in DOMAIN st.dicedge
             THEN [st.dicedge EXCEPT ![e] = p.L]
             ELSE st.dicedge @@ (e :> p.L)
    IN  IF p.i >= 0
        THEN [TT |-> st.availT[p.i + 1], availT |-> st.availT,
              dicedge |-> d, nbTavail |-> st.nbTavail - 1]
        ELSE [TT |-> NoneT, availT |-> st.availT, dicedge |-> d,
              nbTavail |-> st.nbTavail]

\* findTriangleWithEdge without line 381: nbTavail is not decremented
findTriangleWithEdge_NoCount(e, st) ==
    LET p == PopAvailable(Lookup(st.dicedge, e), st.availT)
        d == IF e \in DOMAIN st.dicedge
             THEN [st.dicedge EXCEPT ![e] = p.L]
             ELSE st.dicedge @@ (e :> p.L)
    IN  IF p.i >= 0
        THEN [TT |-> st.availT[p.i + 1],
              availT |-> [st.availT EXCEPT ![p.i + 1] = NoneT],
              dicedge |-> d,
              nbTavail |-> st.nbTavail]
        ELSE [TT |-> NoneT, availT |-> st.availT, dicedge |-> d,
              nbTavail |-> st.nbTavail]

\* lines 370-383: st is [availT, dicedge, nbTavail]; the result adds TT
findTriangleWithEdge(e, st) ==
    LET p == PopAvailable(Lookup(st.dicedge, e), st.availT)
        d == IF e \in DOMAIN st.dicedge
             THEN [st.dicedge EXCEPT ![e] = p.L]
             ELSE st.dicedge @@ (e :> p.L)
    IN  IF p.i >= 0
        THEN [TT |-> st.availT[p.i + 1],
              availT |-> [st.availT EXCEPT ![p.i + 1] = NoneT],
              dicedge |-> d,
              nbTavail |-> st.nbTavail - 1]
        ELSE [TT |-> NoneT, availT |-> st.availT, dicedge |-> d,
              nbTavail |-> st.nbTavail]

\* line 393-394: the first index >= f whose triangle is available; the
\* scan of the source raises IndexError past the end: Len(av) stands for it
RECURSIVE ScanAvailable(_, _)
ScanAvailable(av, f) ==
    IF f >= Len(av) THEN Len(av)
    ELSE IF av[f + 1] = NoneT THEN ScanAvailable(av, f + 1)
    ELSE f

\* one lookup of the inner loop (lines 411-412, 414-415, 420-421): advance E
\* in T, then look the inverse edge up.  st carries availT, dicedge,
\* nbTavail and the triangle TT found by the last lookup.
Probe(t, e, st) ==
    LET e2 == edgeAfter(t, e)
    IN  IF e2 = NoneT
        THEN [err |-> "error in edgeAfter, edge not found", E |-> e, st |-> st]
        ELSE [err |-> "", E |-> e2,
              st |-> findTriangleWithEdge(invertEdge(e2), st)]

\* Search giving up after the first lookup (lines 413-423 left out)
Search_OneLookup(lenC, t, e, st) == Probe(t, e, st)

\* lines 411-423: up to two lookups, a third one only for a chain of one
Search(lenC, t, e, st) ==
    LET p1 == Probe(t, e, st)
    IN  IF p1.err # "" \/ p1.st.TT # NoneT THEN p1
        ELSE LET p2 == Probe(t, p1.E, p1.st)
             IN  IF p2.err # "" \/ p2.st.TT # NoneT THEN p2
                 ELSE IF lenC > 1 THEN p2
                 ELSE Probe(t, p2.E, p2.st)

\* lines 425-436: the flag n of the link through edge e of the stored
\* predecessor pT; the three tests run in sequence, the last match wins
LinkFlag(pT, e, lenC) ==
    LET hit0 == e = <<pT[1], pT[2]>>
        n1 == IF hit0 THEN 2 ELSE NoneN
        n2 == IF e = <<pT[3], pT[1]>> THEN 0 ELSE n1
        n3 == IF e = <<pT[2], pT[3]>> THEN 1 ELSE n2
    IN  IF hit0 /\ lenC > 1 THEN [err |-> "wrong next edge...", n |-> NoneN]
        ELSE IF n3 = NoneN THEN [err |-> "edge not found...", n |-> NoneN]
        ELSE [err |-> "", n |-> n3]

\* CloseSeed exchanging the first two corners of the seed ((T[1], T[0], T[2])
\* in line 443)
CloseSeed_Reversed(c) ==
    IF Len(c) > 1 /\ c[2][1] = 2
    THEN [c EXCEPT ![1] = <<NoneN, <<c[1][2][2], c[1][2][1], c[1][2][3]>>>>,
                   ![2] = <<0, c[2][2]>>]
    ELSE c

\* CloseSeed shifting the seed the other way ((T[2], T[0], T[1]) in line 443)
CloseSeed_OtherWay(c) ==
    IF Len(c) > 1 /\ c[2][1] = 2
    THEN [c EXCEPT ![1] = <<NoneN, <<c[1][2][3], c[1][2][1], c[1][2][2]>>>>,
                   ![2] = <<0, c[2][2]>>]
    ELSE c

\* lines 441-444: the seed is shifted when the second triangle has flag 2
CloseSeed(c) ==
    IF Len(c) > 1 /\ c[2][1] = 2
    THEN [c EXCEPT ![1] = <<NoneN, <<c[1][2][2], c[1][2][3], c[1][2][1]>>>>,
                   ![2] = <<0, c[2][2]>>]
    ELSE c

Fail(msg) ==
    /\ pc' = "error"
    /\ err' = msg

\* main, lines 859-861 and 359-366, 398: call reorderObjectTriangles on the
\* next object
ReorderStart ==
    /\ pc = "reorder"
    /\ LET o == obj[oi + 1]
       IN  /\ availT' = o
           /\ dicedge' = BuildDicedge(o, Len(o))
           /\ firstTavail' = 0
           /\ nbTavail' = Len(o)
           /\ Rc' = <<>>
    /\ pc' = "chain"
    /\ UNCHANGED <<meshVars, obj, R, oi, C, T, E, permVars, saveVars, err>>

\* lines 401-405 with getNextTriangle (386-397): seed a new chain
StartChain ==
    /\ pc = "chain"
    /\ nbTavail # 0
    /\ LET f == ScanAvailable(availT, firstTavail)
       IN  IF f >= Len(availT)
           THEN /\ Fail("IndexError: list index out of range")
                /\ UNCHANGED <<availT, firstTavail, nbTavail, C, T, E>>
           ELSE /\ nbTavail' = nbTavail - 1
                /\ firstTavail' = f
                /\ availT' = [availT EXCEPT ![f + 1] = NoneT]
                /\ T' = availT[f + 1]
                /\ C' = << <<NoneN, availT[f + 1]>> >>
                /\ E' = edge(availT[f + 1], 2)
                /\ pc' = "extend"
                /\ err' = err
    /\ UNCHANGED <<meshVars, obj, R, oi, dicedge, Rc, permVars, saveVars>>

\* the locals of reorderObjectTriangles outside a call of it
NoCall ==
    /\ availT = <<>>
    /\ dicedge = <<>>
    /\ firstTavail = 0
    /\ nbTavail = 0
    /\ Rc = <<>>
    /\ C = <<>>
    /\ T = NoneT
    /\ E = NoneT

\* lines 401-403 and main 862-863: no triangle left, return R (the locals of
\* the call are gone); main appends it and goes to the next object or on to
\* reorderVNTarrays
ReturnChains ==
    /\ pc = "chain"
    /\ nbTavail = 0
    /\ R' = Append(R, Rc)
    /\ oi' = oi + 1
    /\ pc' = IF oi + 1 < Len(obj) THEN "reorder" ELSE "renumber_v"
    /\ availT' = <<>>
    /\ dicedge' = <<>>
    /\ firstTavail' = 0
    /\ nbTavail' = 0
    /\ Rc' = <<>>
    /\ C' = <<>>
    /\ T' = NoneT
    /\ E' = NoneT
    /\ UNCHANGED <<meshVars, obj, permVars, saveVars, err>>

\* lines 407-439: one iteration of the inner loop
ExtendChain ==
    /\ pc = "extend"
    /\ IF Len(C) = MAXCHAINLEN
       THEN /\ pc' = "close"
            /\ UNCHANGED <<availT, dicedge, nbTavail, C, T, E, err>>
       ELSE LET s == Search(Len(C), T,  E,
                            [TT |-> NoneT, availT |-> availT,
                             dicedge |-> dicedge, nbTavail |-> nbTavail])
                fl == LinkFlag(C[Len(C)][2], s.E, Len(C))
                E2 == invertEdge(s.E)
                rot == rotateTriangleStartEdge(s.st.TT, E2)
            IN  IF s.err # ""
                THEN /\ Fail(s.err)
                     /\ UNCHANGED <<availT, dicedge, nbTavail, C, T, E>>
                ELSE /\ availT' = s.st.availT
                     /\ dicedge' = s.st.dicedge
                     /\ nbTavail' = s.st.nbTavail
                     /\ IF s.st.TT = NoneT
                        THEN /\ E' = s.E
                             /\ pc' = "close"
                             /\ UNCHANGED <<C, T, err>>
                        ELSE IF fl.err # ""
                        THEN /\ Fail(fl.err)
                             /\ E' = s.E
                             /\ UNCHANGED <<C, T>>
                        ELSE IF rot = NoneT
                        THEN /\ Fail("error in rotateTriangleStartEdge, edge not found")
                             /\ E' = E2
                             /\ T' = s.st.TT
                             /\ C' = C
                        ELSE /\ E' = E2
                             /\ T' = s.st.TT
                             /\ C' = Append(C, <<fl.n, rot>>)
                             /\ pc' = "extend"
                             /\ err' = err
    /\ UNCHANGED <<meshVars, obj, R, oi, firstTavail, Rc, permVars, saveVars>>

\* lines 441-445: shift the seed if needed and append the chain to R
CloseChain ==
    /\ pc = "close"
    /\ C' = CloseSeed(C)
    /\ Rc' = Append(Rc, CloseSeed(C))
    /\ pc' = "chain"
    /\ UNCHANGED <<meshVars, obj, R, oi, availT, dicedge, firstTavail,
                   nbTavail, T, E, permVars, saveVars, err>>

\* ========================================================== renumberer
\* Python indexing: a negative index counts from the end of the list
PyIdx(a, i) == IF i >= 0 THEN a[i + 1] ELSE a[Len(a) + i + 1]

\* ChainUse reading the second corner of the later triangles (T[1] for T[2]
\* in lines 464-466 and 536)
ChainUse_SecondCorner(c, index) ==
    <<c[1][2][1][index + 1], c[1][2][2][index + 1], c[1][2][3][index + 1]>>
    \o [k \in 1..(Len(c) - 1) |-> c[k + 1][2][2][index + 1]]

\* lines 458-466 and 528-540: the indices one chain contributes to the
\* traversal: the three corners of its first triangle, then the third
\* corner of every later triangle (index is 0, 1 or 2 for v, t, n)
ChainUse(c, index) ==
    <<c[1][2][1][index + 1], c[1][2][2][index + 1], c[1][2][3][index + 1]>>
    \o [k \in 1..(Len(c) - 1) |-> c[k + 1][2][3][index + 1]]

RECURSIVE ObjectUse(_, _, _)
ObjectUse(O, k, index) ==
    IF k = 0 THEN <<>>
    ELSE ObjectUse(O, k - 1, index) \o ChainUse(O[k], index)

\* lines 456-457, 526-527: objects in order, chains in order
RECURSIVE Traversal(_, _, _)
Traversal(RR, k, index) ==
    IF k = 0 THEN <<>>
    ELSE Traversal(RR, k - 1, index) \o ObjectUse(RR[k], Len(RR[k]), index)

Range(a) == {a[k] : k \in DOMAIN a}

\* lines 460-466: keep the first occurrence of every index of a[1..k]
RECURSIVE FirstUse(_, _)
FirstUse(a, k) ==
    IF k = 0 THEN <<>>
    ELSE LET vi == FirstUse(a, k - 1)
         IN  IF a[k] \in Range(vi) THEN vi ELSE Append(vi, a[k])

\* AppendUnused without the test of line 476: every position is appended
RECURSIVE AppendUnused_All(_, _, _)
AppendUnused_All(vi, setv, n) ==
    IF n = 0 THEN vi
    ELSE Append(AppendUnused_All(vi, setv, n - 1), n - 1)

\* lines 475-477: append the positions j < n that are not in setv, ascending
RECURSIVE AppendUnused(_, _, _)
AppendUnused(vi, setv, n) ==
    IF n = 0 THEN vi
    ELSE LET w == AppendUnused(vi, setv, n - 1)
         IN  IF (n - 1) \in setv THEN w ELSE Append(w, n - 1)

\* lines 478-488: the checks on vi, in the order of the source; "" if none
\* fires.  seen is the set setc built from vi[1..k-1].
RECURSIVE CheckPerm(_, _, _)
CheckPerm(vi, k, n) ==
    IF k > Len(vi)
    THEN IF Cardinality(Range(vi)) # n
         THEN "reorderVNTarrays, hum.. impossible !" ELSE ""
    ELSE IF vi[k] < 0 THEN "reorderVNTarrays, negative index"
    ELSE IF vi[k] >= n THEN "reorderVNTarrays, index too large"
    ELSE IF vi[k] \in {vi[j] : j \in 1..(k - 1)}
         THEN "reorderVNTarrays, index found twice"
    ELSE CheckPerm(vi, k + 1, n)

\* lines 453-490
orderByFirstUse(ar, RR, index) ==
    LET use == Traversal(RR, Len(RR), index)
        vi0 == FirstUse(use, Len(use))
        vi1 == IF Len(vi0) < Len(ar)
               THEN AppendUnused(vi0, Range(vi0), Len(ar)) ELSE vi0
    IN  IF ar = <<>>
        THEN IF vi0 # <<-1>>
             THEN [err |-> "reorderVNTarrays, vi should be [-1]", vi |-> <<>>]
             ELSE [err |-> "", vi |-> <<>>]
        ELSE IF Len(vi0) > Len(ar)
             THEN [err |-> "reorderVNTarrays, wrong size for vi", vi |-> vi0]
             ELSE [err |-> CheckPerm(vi1, 1, Len(ar)), vi |-> vi1]

\* lines 492-496: iv = vi[:], then iv[a] = i for every (i, a) of vi in order
RECURSIVE invpermUpTo(_, _)
invpermUpTo(vi, k) ==
    IF k = 0 THEN vi
    ELSE LET iv == invpermUpTo(vi, k - 1)
             a == vi[k]
             pos == IF a >= 0 THEN a + 1 ELSE Len(vi) + a + 1
         IN  [iv EXCEPT ![pos] = k - 1]

invperm(vi) == invpermUpTo(vi, Len(vi))

\* lines 498-505: corner c with its attribute index replaced by iv[index]
chI(c, index, iv) == [c EXCEPT ![index + 1] = PyIdx(iv, c[index + 1])]

\* reorderArray with newar[i] = ar[v - 1] for line 513
reorderArray_OffByOne(vi, ar, RR, index) ==
    IF vi = <<>> THEN [ar |-> ar, R |-> RR]
    ELSE LET iv == invperm(vi)
         IN  [ar |-> [i \in 1..Len(ar) |->
                        IF i <= Len(vi) THEN PyIdx(ar, vi[i] - 1) ELSE ar[i]],
              R |-> [o \in 1..Len(RR) |-> [c \in 1..Len(RR[o]) |->
                      [k \in 1..Len(RR[o][c]) |->
                        <<RR[o][c][k][1],
                          <<chI(RR[o][c][k][2][1], index, iv),
                            chI(RR[o][c][k][2][2], index, iv),
                            chI(RR[o][c][k][2][3], index, iv)>> >>]]]]

\* reorderArray leaving the array in place (lines 511-516 left out): only the
\* indexes of the corners are rewritten
reorderArray_KeepArray(vi, ar, RR, index) ==
    IF vi = <<>> THEN [ar |-> ar, R |-> RR]
    ELSE LET iv == invperm(vi)
         IN  [ar |-> ar,
              R |-> [o \in 1..Len(RR) |-> [c \in 1..Len(RR[o]) |->
                      [k \in 1..Len(RR[o][c]) |->
                        <<RR[o][c][k][1],
                          <<chI(RR[o][c][k][2][1], index, iv),
                            chI(RR[o][c][k][2][2], index, iv),
                            chI(RR[o][c][k][2][3], index, iv)>> >>]]]]

\* lines 507-522: [ar, R] after the call
reorderArray(vi, ar, RR, index) ==
    IF vi = <<>> THEN [ar |-> ar, R |-> RR]
    ELSE LET iv == invperm(vi)
         IN  [ar |-> [i \in 1..Len(ar) |->
                        IF i <= Len(vi) THEN PyIdx(ar, vi[i]) ELSE ar[i]],
              R |-> [o \in 1..Len(RR) |-> [c \in 1..Len(RR[o]) |->
                      [k \in 1..Len(RR[o][c]) |->
                        <<RR[o][c][k][1],
                          <<chI(RR[o][c][k][2][1], index, iv),
                            chI(RR[o][c][k][2][2], index, iv),
                            chI(RR[o][c][k][2][3], index, iv)>> >>]]]]

\* lines 525-540: the frontier next after the indices use[1..k]; -1 stands
\* for the error() call "array reordering was incorrect"
RECURSIVE Frontier(_, _)
Frontier(use, k) ==
    IF k = 0 THEN 0
    ELSE LET next == Frontier(use, k - 1)
         IN  IF next < 0 THEN next
             ELSE IF use[k] > next THEN -1
             ELSE IF use[k] = next THEN next + 1
             ELSE next

\* trim deleting from next - 1 on (del ar[next-1:] for line 545)
trim_OneTooMany(ar, RR, index) ==
    LET use == Traversal(RR, Len(RR), index)
        next == Frontier(use, Len(use))
    IN  IF next < 0
        THEN [err |-> "array reordering was incorrect !", ar |-> ar]
        ELSE IF next > Len(ar)
        THEN [err |-> "index out of bounds (should not be possible)", ar |-> ar]
        ELSE [err |-> "", ar |-> SubSeq(ar, 1, next - 1)]

\* lines 524-545: [err, ar] after the call
trim(ar, RR, index) ==
    LET use == Traversal(RR, Len(RR), index)
        next == Frontier(use, Len(use))
    IN  IF next < 0
        THEN [err |-> "array reordering was incorrect !", ar |-> ar]
        ELSE IF next > Len(ar)
        THEN [err |-> "index out of bounds (should not be possible)", ar |-> ar]
        ELSE [err |-> "", ar |-> SubSeq(ar, 1, next)]

\* lines 547-549, 551-553, 555-557: the three calls for one attribute;
\* [err, vi, ar, R] after them
Renumber(ar, RR, index) ==
    LET o == orderByFirstUse(ar, RR, index)
        r == reorderArray(o.vi, ar, RR, index)
        t == trim(r.ar, r.R, index)
    IN  IF o.err # "" THEN [err |-> o.err, vi |-> o.vi, ar |-> ar, R |-> RR]
        ELSE [err |-> t.err, vi |-> o.vi, ar |-> t.ar, R |-> r.R]

RenumberVertex ==
    /\ pc = "renumber_v"
    /\ LET r == Renumber(vertice, R, 0)
       IN  /\ vi_v' = r.vi
           /\ vertice' = r.ar
           /\ R' = r.R
           /\ IF r.err # "" THEN Fail(r.err)
              ELSE pc' = "renumber_t" /\ err' = err
    /\ UNCHANGED <<texture, normal, obj, oi, builderVars, vi_t, vi_n, saveVars>>

RenumberTexture ==
    /\ pc = "renumber_t"
    /\ LET r == Renumber(texture, R, 1)
       IN  /\ vi_t' = r.vi
           /\ texture' = r.ar
           /\ R' = r.R
           /\ IF r.err # "" THEN Fail(r.err)
              ELSE pc' = "renumber_n" /\ err' = err
    /\ UNCHANGED <<vertice, normal, obj, oi, builderVars, vi_v, vi_n, saveVars>>

RenumberNormal ==
    /\ pc = "renumber_n"
    /\ LET r == Renumber(normal, R, 2)
       IN  /\ vi_n' = r.vi
           /\ normal' = r.ar
           /\ R' = r.R
           /\ IF r.err # "" THEN Fail(r.err)
              ELSE pc' = "save" /\ err' = err
    /\ UNCHANGED <<vertice, texture, obj, oi, builderVars, vi_v, vi_t, saveVars>>

\* lines 451-558 called once more on what the first call left: the three
\* attributes in turn, as in RenumberVertex, RenumberTexture, RenumberNormal
ReorderAgainVertex ==
    /\ pc = "save"
    /\ LET r == Renumber(vertice, R, 0)
       IN  /\ vi_v' = r.vi
           /\ vertice' = r.ar
           /\ R' = r.R
           /\ IF r.err # "" THEN Fail(r.err)
              ELSE pc' = "again_t" /\ err' = err
    /\ UNCHANGED <<texture, normal, obj, oi, builderVars, vi_t, vi_n, saveVars>>

ReorderAgainTexture ==
    /\ pc = "again_t"
    /\ LET r == Renumber(texture, R, 1)
       IN  /\ vi_t' = r.vi
           /\ texture' = r.ar
           /\ R' = r.R
           /\ IF r.err # "" THEN Fail(r.err)
              ELSE pc' = "again_n" /\ err' = err
    /\ UNCHANGED <<vertice, normal, obj, oi, builderVars, vi_v, vi_n, saveVars>>

ReorderAgainNormal ==
    /\ pc = "again_n"
    /\ LET r == Renumber(normal, R, 2)
       IN  /\ vi_n' = r.vi
           /\ normal' = r.ar
           /\ R' = r.R
           /\ IF r.err # "" THEN Fail(r.err)
              ELSE pc' = "again" /\ err' = err
    /\ UNCHANGED <<vertice, texture, obj, oi, builderVars, vi_v, vi_t, saveVars>>

\* ============================================================ savemodel
\* ElemSize without lines 672-673: the normals are not counted
ElemSize_NoNormal(tex, nor) == 1 + (IF Len(tex) > 0 THEN 1 ELSE 0)

\* lines 669-673
ElemSize(tex, nor) ==
    1 + (IF Len(tex) > 0 THEN 1 ELSE 0) + (IF Len(nor) > 0 THEN 1 ELSE 0)

\* lines 676-687: the fields writeelem writes for el, and its count nbw
writeelem(el) ==
    LET f1 == IF el[2] >= 0 THEN <<el[2]>> ELSE <<>>
        f2 == IF el[3] >= 0 THEN <<el[3]>> ELSE <<>>
    IN  [out |-> <<el[1]>> \o f1 \o f2,
         nbw |-> 1 + (IF el[2] >= 0 THEN 1 ELSE 0)
                   + (IF el[3] >= 0 THEN 1 ELSE 0)]

\* WriteLink writing the second corner L[1][1] in place of the third L[1][2]
WriteLink_SecondCorner(L) ==
    writeelem(<<L[2][2][1] + (FLAGBIT * L[1]), L[2][2][2], L[2][2][3]>>)

\* WriteLink with the flag written as bit 16 (65536 for 32768 in line 710)
WriteLink_Bit16(L) ==
    writeelem(<<L[2][3][1] + (65536 * L[1]), L[2][3][2], L[2][3][3]>>)

\* line 710: the entry of a triangle L = (n, T) that is not the first of its
\* chain: its third corner, the flag n added to the vertex index
WriteLink(L) ==
    writeelem(<<L[2][3][1] + (FLAGBIT * L[1]), L[2][3][2], L[2][3][3]>>)

\* lines 709-710: the entries of the triangles c[lo..hi] of a chain, in
\* order.  The loop is folded by halves: a chain of the length the limits
\* allow has tens of thousands of triangles.
RECURSIVE WriteLinks(_, _, _)
WriteLinks(c, lo, hi) ==
    IF lo > hi THEN [out |-> <<>>, nbw |-> 0]
    ELSE IF lo = hi THEN WriteLink(c[lo])
    ELSE LET mid == (lo + hi) \div 2
             a == WriteLinks(c, lo, mid)
             b == WriteLinks(c, mid + 1, hi)
         IN  [out |-> a.out \o b.out, nbw |-> a.nbw + b.nbw]

\* lines 701-710: one chain: its length, its first triangle in full, then
\* one entry per later triangle
WriteChain(c) ==
    LET e0 == writeelem(c[1][2][1])
        e1 == writeelem(c[1][2][2])
        e2 == writeelem(c[1][2][3])
        w == WriteLinks(c, 2, Len(c))
    IN  [out |-> <<Len(c)>> \o e0.out \o e1.out \o e2.out \o w.out,
         nbw |-> 1 + e0.nbw + e1.nbw + e2.nbw + w.nbw]

\* lines 700-716: the chains O[lo..hi] in order.  The loops over the chains
\* of an object are folded by halves here and below: an object of the size
\* the limits allow has tens of thousands of chains.
RECURSIVE WriteChains(_, _, _)
WriteChains(O, lo, hi) ==
    IF lo > hi THEN [out |-> <<>>, nbw |-> 0]
    ELSE IF lo = hi THEN WriteChain(O[lo])
    ELSE LET mid == (lo + hi) \div 2
             a == WriteChains(O, lo, mid)
             b == WriteChains(O, mid + 1, hi)
         IN  [out |-> a.out \o b.out, nbw |-> a.nbw + b.nbw]

\* lines 700-719: every chain, then the final 0
WriteFace(O) ==
    LET w == WriteChains(O, 1, Len(O))
    IN  [out |-> Append(w.out, 0), nbw |-> w.nbw + 1]

\* lines 696-697 (and 730-731): what the chains O[lo..hi] add to tl
RECURSIVE ChainsSize(_, _, _, _)
ChainsSize(O, lo, hi, elem) ==
    IF lo > hi THEN 0
    ELSE IF lo = hi THEN 1 + (2 + Len(O[lo])) * elem
    ELSE LET mid == (lo + hi) \div 2
         IN  ChainsSize(O, lo, mid, elem) + ChainsSize(O, mid + 1, hi, elem)

\* lines 695-697 (and 729-731): the declared size tl of the face array
DeclaredSize(O, elem) == 1 + ChainsSize(O, 1, Len(O), elem)

\* lines 600-604
RECURSIVE nbTRange(_, _, _)
nbTRange(O, lo, hi) ==
    IF lo > hi THEN 0
    ELSE IF lo = hi THEN Len(O[lo])
    ELSE LET mid == (lo + hi) \div 2
         IN  nbTRange(O, lo, mid) + nbTRange(O, mid + 1, hi)

nbT(O) == nbTRange(O, 1, Len(O))

\* SaveCheckLimits without the check of lines 593-594
SaveCheckLimits_NoVertexCheck ==
    /\ pc = "save"
    /\ IF Len(texture) > MAXTEXTURE
       THEN Fail("Model has too many texture coords")
       ELSE IF Len(normal) > MAXNORMAL
       THEN Fail("Model has too many normals")
       ELSE pc' = "open" /\ err' = err
    /\ UNCHANGED <<meshVars, obj, R, oi, builderVars, permVars, saveVars>>

\* lines 593-598: the limit checks, before anything else
SaveCheckLimits ==
    /\ pc = "save"
    /\ IF Len(vertice) > MAXVERTICE
       THEN Fail("Model has too many vertices")
       ELSE IF Len(texture) > MAXTEXTURE
       THEN Fail("Model has too many texture coords")
       ELSE IF Len(normal) > MAXNORMAL
       THEN Fail("Model has too many normals")
       ELSE pc' = "open" /\ err' = err
    /\ UNCHANGED <<meshVars, obj, R, oi, builderVars, permVars, saveVars>>

\* lines 617-667: open the file, write the comment header, the includes and
\* the attribute arrays
SaveOpen ==
    /\ pc = "open"
    /\ fopen' = TRUE
    /\ fhead' = TRUE
    /\ pc' = "faces"
    /\ UNCHANGED <<meshVars, obj, R, oi, builderVars, permVars, faces, nbw,
                   tl, info, err>>

\* lines 689-721: the face array of object mnb = Len(faces)
SaveFace ==
    /\ pc = "faces"
    /\ Len(faces) < Len(R)
    /\ LET O == R[Len(faces) + 1]
           w == WriteFace(O)
           size == DeclaredSize(O, ElemSize(texture, normal))
       IN  /\ tl' = size
           /\ nbw' = w.nbw
           /\ faces' = Append(faces, w.out)
           /\ IF w.nbw # size THEN Fail("savemodel() wrong count !")
              ELSE pc' = "faces" /\ err' = err
    /\ UNCHANGED <<meshVars, obj, R, oi, builderVars, permVars, fopen, fhead,
                   info>>

\* lines 724-789: the mesh records, last object first, and the end comment
SaveMeshInfo ==
    /\ pc = "faces"
    /\ Len(faces) = Len(R)
    /\ info' = [bnm \in 1..Len(R) |->
                  LET O == R[Len(R) - bnm + 1]
                  IN  [nbv |-> Len(vertice), nbt |-> Len(texture),
                       nbn |-> Len(normal), nbtri |-> nbT(O),
                       size |-> DeclaredSize(O, ElemSize(texture, normal))]]
    /\ pc' = "done"
    /\ UNCHANGED <<meshVars, obj, R, oi, builderVars, permVars, fopen, fhead,
                   faces, nbw, tl, err>>

\* ============================================================== inputs
\* What loadObjFile returns (lines 126-229): the arrays, and objects whose
\* corners index them; t (n) is -1 on every corner or on none (lines
\* 218-222).  An array is the sequence 0..n-1 of its original positions.
Iota(n) == [i \in 1..n |-> i - 1]

Triangles(corners) == corners \X corners \X corners

\* the triangle list l cut into objects after the positions in cuts; no
\* object is empty (an object is closed only when it has triangles: lines
\* 171-176, 189-192)
RECURSIVE CutFrom(_, _, _, _)
CutFrom(l, cuts, start, k) ==
    IF k > Len(l) THEN <<>>
    ELSE IF k = Len(l) \/ k \in cuts
    THEN <<SubSeq(l, start, k)>> \o CutFrom(l, cuts, k + 1, k + 1)
    ELSE CutFrom(l, cuts, start, k + 1)

CutSets(k) == {c \in SUBSET (1..(k - 1)) : Cardinality(c) < MaxObj}

\* corners with a vertex index alone
PlainCorners == {<<v, -1, -1>> : v \in 0..(MaxV - 1)}
\* corners with texcoords, with normals, with both: two corners of each
\* palette share their vertex and differ in another attribute
TexCorners == {<<0, 1, -1>>, <<1, 0, -1>>, <<0, 0, -1>>}
NorCorners == {<<0, -1, 1>>, <<1, -1, 0>>, <<1, -1, 1>>}
FullCorners == {<<0, 1, 0>>, <<1, 0, 1>>, <<0, 0, 1>>}

\* section 8 of the specification: a vertex array of 10 entries of which
\* only 2, 5 and 7 are referenced
TrimExample ==
    [vertice |-> Iota(10), texture |-> <<>>, normal |-> <<>>,
     obj |-> << << <<<<2, -1, -1>>, <<5, -1, -1>>, <<7, -1, -1>>>> >> >>]

\* the enumerated families: the corners, the most triangles, the lengths of
\* the three arrays
Families ==
    {[corners |-> PlainCorners, ntri |-> MaxTri, nv |-> MaxV, nt |-> 0, nn |-> 0],
     [corners |-> TexCorners, ntri |-> MaxTexTri, nv |-> 2, nt |-> 2, nn |-> 0],
     [corners |-> NorCorners, ntri |-> MaxTexTri, nv |-> 2, nt |-> 0, nn |-> 2],
     [corners |-> FullCorners, ntri |-> MaxTexTri, nv |-> 2, nt |-> 2, nn |-> 2]}

InitEnumerated ==
    \E fam \in Families : \E k \in 1..fam.ntri :
      \E l \in [1..k -> Triangles(fam.corners)] : \E cuts \in CutSets(k) :
        /\ vertice = Iota(fam.nv)
        /\ texture = Iota(fam.nt)
        /\ normal = Iota(fam.nn)
        /\ obj = CutFrom(l, cuts, 1, 1)

InitExample ==
    \E m \in {TrimExample} :
        /\ vertice = m.vertice
        /\ texture = m.texture
        /\ normal = m.normal
        /\ obj = m.obj

\* ================================================================ system
Init ==
    /\ (InitEnumerated \/ InitExample)
    /\ R = <<>>
    /\ oi = 0
    /\ NoCall
    /\ vi_v = <<>>
    /\ vi_t = <<>>
    /\ vi_n = <<>>
    /\ fopen = FALSE
    /\ fhead = FALSE
    /\ faces = <<>>
    /\ nbw = 0
    /\ tl = 0
    /\ info = <<>>
    /\ pc = "reorder"
    /\ err = ""

Next ==
    \/ ReorderStart
    \/ StartChain
    \/ ExtendChain
    \/ CloseChain
    \/ ReturnChains
    \/ RenumberVertex
    \/ RenumberTexture
    \/ RenumberNormal
    \/ SaveCheckLimits
    \/ SaveOpen
    \/ SaveFace
    \/ SaveMeshInfo

Spec == Init /\ [][Next]_vars

\* ------------------------------------------------ the script, scheduled
\* triangles over four vertices: two that make a strip, one more next to
\* them, the first one reversed, and two with a repeated corner
FairTriangles ==
    {<< <<0, -1, -1>>, <<1, -1, -1>>, <<2, -1, -1>> >>,
     << <<2, -1, -1>>, <<1, -1, -1>>, <<3, -1, -1>> >>,
     << <<3, -1, -1>>, <<0, -1, -1>>, <<2, -1, -1>> >>,
     << <<2, -1, -1>>, <<1, -1, -1>>, <<0, -1, -1>> >>,
     << <<0, -1, -1>>, <<0, -1, -1>>, <<0, -1, -1>> >>,
     << <<0, -1, -1>>, <<0, -1, -1>>, <<1, -1, -1>> >>}

\* one object of up to MaxFairTri of them, in any order, repeats included
InitFair ==
    /\ \E k \in 1..MaxFairTri : \E l \in [1..k -> FairTriangles] :
          obj = <<l>>
    /\ vertice = Iota(4)
    /\ texture = <<>>
    /\ normal = <<>>
    /\ R = <<>>
    /\ oi = 0
    /\ NoCall
    /\ vi_v = <<>>
    /\ vi_t = <<>>
    /\ vi_n = <<>>
    /\ fopen = FALSE
    /\ fhead = FALSE
    /\ faces = <<>>
    /\ nbw = 0
    /\ tl = 0
    /\ info = <<>>
    /\ pc = "reorder"
    /\ err = ""

\* main, lines 859-864: the calls of reorderObjectTriangles
NextFair ==
    \/ ReorderStart
    \/ StartChain
    \/ ExtendChain
    \/ CloseChain
    \/ ReturnChains

\* the script has a statement of NextFair to run: every one of its actions is
\* enabled by its control point alone
Running == pc \in {"reorder", "chain", "extend", "close"}

\* the script is one sequential thread: the statement it has reached runs.
\* This is WF_vars(NextFair) with ENABLED <<NextFair>>_vars written out as
\* Running.
Scheduled == []<>(~Running) \/ []<><<NextFair>>_vars

SpecFair == InitFair /\ [][NextFair]_vars /\ Scheduled

\* the script up to reorderVNTarrays, then reorderVNTarrays a second time
NextTwice ==
    \/ ReorderStart
    \/ StartChain
    \/ ExtendChain
    \/ CloseChain
    \/ ReturnChains
    \/ RenumberVertex
    \/ RenumberTexture
    \/ RenumberNormal
    \/ ReorderAgainVertex
    \/ ReorderAgainTexture
    \/ ReorderAgainNormal

SpecTwice == Init /\ [][NextTwice]_vars

\* ------------------------------------------- the script from the loader
\* lines 319-343 (main, line 846): with no normal in the file the user is
\* asked; on "y" there is one normal per vertex and every corner gets its
\* vertex index as normal index.  The normalisation of lines 345-347 changes
\* no length and no index.
FixNormals ==
    /\ pc = "loaded"
    /\ \E ans \in BOOLEAN :
         IF normal = <<>> /\ ans
         THEN /\ normal' = Iota(Len(vertice))
              /\ obj' = [o \in 1..Len(obj) |-> [i \in 1..Len(obj[o]) |->
                           [j \in 1..3 |->
                              <<obj[o][i][j][1], obj[o][i][j][2],
                                obj[o][i][j][1]>>]]]
         ELSE UNCHANGED <<normal, obj>>
    /\ pc' = "reorder"
    /\ UNCHANGED <<vertice, texture, R, oi, builderVars, permVars, saveVars,
                   err>>

\* what loadObjFile returns: the enumerated meshes of at most MaxLoadTri
\* triangles, with texcoord and normal arrays that hold up to MaxExtra
\* entries more than the faces can refer to (vt and vn lines no face uses;
\* lines 207-222 accept them, also when no face has a texcoord or a normal)
InitLoaded ==
    /\ \E fam \in Families : \E k \in 1..MaxLoadTri :
         \E l \in [1..k -> Triangles(fam.corners)] : \E cuts \in CutSets(k) :
           \E xt \in 0..MaxExtra : \E xn \in 0..MaxExtra :
             /\ vertice = Iota(fam.nv)
             /\ texture = Iota(fam.nt + xt)
             /\ normal = Iota(fam.nn + xn)
             /\ obj = CutFrom(l, cuts, 1, 1)
    /\ R = <<>>
    /\ oi = 0
    /\ NoCall
    /\ vi_v = <<>>
    /\ vi_t = <<>>
    /\ vi_n = <<>>
    /\ fopen = FALSE
    /\ fhead = FALSE
    /\ faces = <<>>
    /\ nbw = 0
    /\ tl = 0
    /\ info = <<>>
    /\ pc = "loaded"
    /\ err = ""

\* main, lines 843-864: loadObjFile, fixNormals, reorderObjectTriangles for
\* every object, reorderVNTarrays
NextLoaded ==
    \/ FixNormals
    \/ ReorderStart
    \/ StartChain
    \/ ExtendChain
    \/ CloseChain
    \/ ReturnChains
    \/ RenumberVertex
    \/ RenumberTexture
    \/ RenumberNormal

SpecLoaded == InitLoaded /\ [][NextLoaded]_vars

\* ------------------------------------------------------------ the cube
\* The cube of section 5 of the specification: vertex number x + 2y + 4z at
\* (x, y, z), the six faces as quads seen from outside, counterclockwise.
CubeQuads ==
    << <<0, 2, 3, 1>>, <<4, 5, 7, 6>>, <<0, 1, 5, 4>>,
       <<2, 6, 7, 3>>, <<0, 4, 6, 2>>, <<1, 3, 7, 5>> >>

\* the two triangles of the quad q, cut along the diagonal d (0 or 1); a
\* corner has a vertex index alone (line 118)
CubeFace(q, d) ==
    LET c == [i \in 1..4 |-> <<q[i], -1, -1>>]
    IN  IF d = 0 THEN << <<c[1], c[2], c[3]>>, <<c[1], c[3], c[4]>> >>
        ELSE << <<c[2], c[3], c[4]>>, <<c[2], c[4], c[1]>> >>

\* the twelve triangles, face after face; diag gives the diagonal of each
CubeTriangles(diag) ==
    CubeFace(CubeQuads[1], diag[1]) \o CubeFace(CubeQuads[2], diag[2])
    \o CubeFace(CubeQuads[3], diag[3]) \o CubeFace(CubeQuads[4], diag[4])
    \o CubeFace(CubeQuads[5], diag[5]) \o CubeFace(CubeQuads[6], diag[6])

\* the triangle t written from its corner r (0, 1 or 2)
StartFrom(t, r) ==
    IF r = 0 THEN t
    ELSE IF r = 1 THEN <<t[2], t[3], t[1]>>
    ELSE <<t[3], t[1], t[2]>>

\* the list l without the places in skip
RECURSIVE Without(_, _, _)
Without(l, skip, k) ==
    IF k > Len(l) THEN <<>>
    ELSE (IF k \in skip THEN <<>> ELSE <<l[k]>>) \o Without(l, skip, k + 1)

\* the files of the cube: CubeSeeds triangles come first, any triangles
\* written from any corner, the others follow face after face.  The first
\* triangle of the file is one of the first face: a rotation of the cube
\* renames the vertices of any file of the cube into one that starts so, and
\* the diagonals range over all choices.  One object, no texcoord, no normal
\* (fixNormals not asked to create them).
InitCube ==
    /\ \E diag \in [1..6 -> {0, 1}] :
         \E first \in [1..CubeSeeds -> (1..12) \X (0..2)] :
           /\ \A i, j \in 1..CubeSeeds : i # j => first[i][1] # first[j][1]
           /\ first[1][1] \in 1..2
           /\ LET l == CubeTriangles(diag)
              IN  obj = << [i \in 1..CubeSeeds |->
                              StartFrom(l[first[i][1]], first[i][2])]
                           \o Without(l, {first[i][1] : i \in 1..CubeSeeds}, 1) >>
    /\ vertice = Iota(8)
    /\ texture = <<>>
    /\ normal = <<>>
    /\ R = <<>>
    /\ oi = 0
    /\ NoCall
    /\ vi_v = <<>>
    /\ vi_t = <<>>
    /\ vi_n = <<>>
    /\ fopen = FALSE
    /\ fhead = FALSE
    /\ faces = <<>>
    /\ nbw = 0
    /\ tl = 0
    /\ info = <<>>
    /\ pc = "reorder"
    /\ err = ""

\* main, lines 859-864: reorderObjectTriangles, then reorderVNTarrays
NextCube ==
    \/ ReorderStart
    \/ StartChain
    \/ ExtendChain
    \/ CloseChain
    \/ ReturnChains
    \/ RenumberVertex
    \/ RenumberTexture
    \/ RenumberNormal

SpecCube == InitCube /\ [][NextCube]_vars

\* ----------------------------------------------------- savemodel alone
\* The states in which main calls savemodel (line 894) for meshes of n
\* triangles that share no edge, followed or not by a strip of len
\* triangles (two at least): the enumerated meshes are too small for the limits of lines
\* 589-591 to matter, meshes of this shape reach them.  Each corner of the
\* mesh has its own entry in the array (or arrays) that kind names, in the
\* order of the file, so that reorderObjectTriangles returns one chain per
\* triangle that shares no edge and one chain for the strip, its flags 1 and
\* 0 in turn, and reorderVNTarrays computes identity permutations and trims
\* nothing.
\* corner number a of the mesh
CaseCorner(kind, a) ==
    IF kind = "v" THEN <<a, -1, -1>>
    ELSE IF kind = "t" THEN <<a % 3, a, -1>>
    ELSE IF kind = "n" THEN <<a % 3, -1, a>>
    ELSE <<a % 3, a, a>>

\* triangle i (from 0) of those that share no edge
CaseTriangle(kind, i) ==
    <<CaseCorner(kind, 3 * i), CaseCorner(kind, 3 * i + 1),
      CaseCorner(kind, 3 * i + 2)>>

\* triangle k (from 0) of the strip over the corners a, a + 1, ...: every
\* other triangle is written from its second corner to keep the orientation
CaseStrip(kind, a, k) ==
    IF k % 2 = 0
    THEN <<CaseCorner(kind, a + k), CaseCorner(kind, a + k + 1),
           CaseCorner(kind, a + k + 2)>>
    ELSE <<CaseCorner(kind, a + k + 1), CaseCorner(kind, a + k),
           CaseCorner(kind, a + k + 2)>>

CaseCorners(cs) == 3 * cs.n + (IF cs.len > 0 THEN cs.len + 2 ELSE 0)

\* the objects of the file: the strip is an object of its own when cs.two
CaseObjects(cs) ==
    LET singles == [i \in 1..cs.n |-> CaseTriangle(cs.kind, i - 1)]
        strip == [k \in 1..cs.len |-> CaseStrip(cs.kind, 3 * cs.n, k - 1)]
    IN  IF cs.two THEN <<singles, strip>> ELSE <<singles \o strip>>

\* the chains reorderObjectTriangles returns for them
CaseChains(cs) ==
    LET singles == [i \in 1..cs.n |->
                      << <<NoneN, CaseTriangle(cs.kind, i - 1)>> >>]
        strip == [k \in 1..cs.len |->
                    <<IF k = 1 THEN NoneN ELSE (k - 1) % 2,
                      CaseStrip(cs.kind, 3 * cs.n, k - 1)>>]
        chains == IF cs.len > 0 THEN <<strip>> ELSE <<>>
    IN  IF cs.two THEN <<singles, chains>> ELSE <<singles \o chains>>

SmallCases ==
    {cs \in [kind : {"v", "t", "n", "tn"}, n : 0..MaxSingles,
             len : 0..MaxStrip, two : BOOLEAN] :
        /\ cs.n > 0 \/ cs.len > 0
        /\ cs.len # 1
        /\ cs.two => (cs.n > 0 /\ cs.len > 0)}

\* the largest meshes of the shape that pass each limit, and the next ones
LimitCases ==
    {[kind |-> "v", n |-> (MAXVERTICE - 4) \div 3, len |-> 2 + d,
      two |-> FALSE] : d \in {0, 1}}
    \cup {[kind |-> "t", n |-> 0, len |-> MAXTEXTURE - 2 + d, two |-> FALSE] :
            d \in {0, 1}}
    \cup {[kind |-> "n", n |-> MAXNORMAL \div 3 + d, len |-> 0, two |-> FALSE] :
            d \in {0, 1}}

InitSave ==
    /\ \E cs \in SmallCases \cup LimitCases :
         /\ vertice = Iota(IF cs.kind = "v" THEN CaseCorners(cs) ELSE 3)
         /\ texture = Iota(IF cs.kind \in {"t", "tn"} THEN CaseCorners(cs) ELSE 0)
         /\ normal = Iota(IF cs.kind \in {"n", "tn"} THEN CaseCorners(cs) ELSE 0)
         /\ obj = CaseObjects(cs)
         /\ R = CaseChains(cs)
    /\ oi = Len(obj)
    /\ NoCall
    /\ vi_v = Iota(Len(vertice))
    /\ vi_t = Iota(Len(texture))
    /\ vi_n = Iota(Len(normal))
    /\ fopen = FALSE
    /\ fhead = FALSE
    /\ faces = <<>>
    /\ nbw = 0
    /\ tl = 0
    /\ info = <<>>
    /\ pc = "save"
    /\ err = ""

NextSave ==
    \/ SaveCheckLimits
    \/ SaveOpen
    \/ SaveFace
    \/ SaveMeshInfo

SpecSave == InitSave /\ [][NextSave]_vars

\* ================================================================ claims
\* the control points of reorderObjectTriangles and of the main loop that
\* calls it; R holds what the calls returned, not yet renumbered, up to and
\* including "renumber_v"
BuilderPcs == {"reorder", "chain", "extend", "close"}

Returned == pc \in BuilderPcs \cup {"renumber_v"}

\* the three cyclic rotations of a triangle
Rotations(t) == {t, <<t[2], t[3], t[1]>>, <<t[3], t[1], t[2]>>}

\* the positions of the chain list O: <<chain, place in the chain>>
Places(O) == UNION {{c} \X (1..Len(O[c])) : c \in 1..Len(O)}

ChainTriangles(O) == {O[p[1]][p[2]][2] : p \in Places(O)}

\* as many input triangles of o as chain triangles of O in each rotation class
SameTriangles(o, O) ==
    /\ nbT(O) = Len(o)
    /\ \A t \in Range(o) \cup ChainTriangles(O) :
          Cardinality({i \in 1..Len(o) : o[i] \in Rotations(t)})
          = Cardinality({p \in Places(O) : O[p[1]][p[2]][2] \in Rotations(t)})

\* C1: when reorderObjectTriangles has returned the chains of an object,
\* they hold the triangles of the object once each, up to cyclic rotation:
\* the chain lengths sum to the number of input triangles and every rotation
\* class has as many chain triangles as input triangles (duplicates and
\* degenerate triangles included).
C1_Partition ==
    Returned => \A k \in 1..Len(R) : SameTriangles(obj[k], R[k])

\* a returned object of three triangles, two of them equal and one with a
\* repeated corner, in more than one chain, one chain being a real chain
C1_Witness ==
    /\ pc = "renumber_v"
    /\ \E k \in 1..Len(R) :
         /\ Len(obj[k]) = 3
         /\ Len(R[k]) = 2
         /\ \E c \in 1..2 : Len(R[k][c]) = 2
         /\ \E i, j \in 1..3 : i < j /\ obj[k][i] = obj[k][j]
         /\ \E i \in 1..3 : obj[k][i][1] = obj[k][i][2]

\* every chain the builder has closed: those returned and those of the
\* object being processed
ClosedChains ==
    UNION {Range(R[k]) : k \in 1..Len(R)}
    \cup (IF pc \in {"chain", "extend", "close"} THEN Range(Rc) ELSE {})

Adjacent(c) ==
    /\ c[1][1] = NoneN
    /\ \A j \in 2..Len(c) :
         LET f == c[j][1]
             N == c[j][2]
             P == c[j - 1][2]
         IN  /\ f \in {0, 1}
             /\ f = 0 => <<N[1], N[2]>> = <<P[1], P[3]>>
             /\ f = 1 => <<N[1], N[2]>> = <<P[3], P[2]>>

\* C2: in every closed chain the first triangle has no flag, and every later
\* triangle N with flag f and stored predecessor P has f in {0,1} and starts
\* with the inverted edge of P the flag names: (N0,N1) = (P0,P2) for f = 0
\* and (P2,P1) for f = 1.
C2_Adjacency == \A c \in ClosedChains : Adjacent(c)

\* a returned chain of three triangles with both flags
C2_Witness ==
    /\ Returned
    /\ \E k \in 1..Len(R) : \E c \in Range(R[k]) :
         /\ Len(c) = 3
         /\ {c[2][1], c[3][1]} = {0, 1}

\* ---------------------------------------------------------------- C3
\* The decoder of the face stream, as the wire contract describes it
\* (section 6 of the specification); hasT and hasN say whether texcoord and
\* normal fields are present.  p is the position of the next element.
ReadCorner(s, p, v, hasT, hasN) ==
    <<v,
      IF hasT THEN s[p + 1] ELSE -1,
      IF hasN THEN s[p + (IF hasT THEN 2 ELSE 1)] ELSE -1>>

FieldCount(hasT, hasN) ==
    1 + (IF hasT THEN 1 ELSE 0) + (IF hasN THEN 1 ELSE 0)

\* k further entries, each rebuilt from the predecessor P
RECURSIVE DecodeLinks(_, _, _, _, _, _)
DecodeLinks(s, p, k, chain, hasT, hasN) ==
    IF k = 0 THEN [chain |-> chain, p |-> p]
    ELSE LET x == s[p]
             bit == x \div 32768
             new == ReadCorner(s, p, x % 32768, hasT, hasN)
             P == chain[Len(chain)][2]
             tri == IF bit = 0 THEN <<P[1], P[3], new>>
                    ELSE <<P[3], P[2], new>>
         IN  DecodeLinks(s, p + FieldCount(hasT, hasN), k - 1,
                         Append(chain, <<bit, tri>>), hasT, hasN)

\* the chains from position p up to the 0 terminator, and its position
RECURSIVE DecodeFace(_, _, _, _)
DecodeFace(s, p, hasT, hasN) ==
    IF s[p] = 0 THEN [chains |-> <<>>, p |-> p]
    ELSE LET n == FieldCount(hasT, hasN)
             c0 == ReadCorner(s, p + 1, s[p + 1], hasT, hasN)
             c1 == ReadCorner(s, p + 1 + n, s[p + 1 + n], hasT, hasN)
             c2 == ReadCorner(s, p + 1 + 2 * n, s[p + 1 + 2 * n], hasT, hasN)
             d == DecodeLinks(s, p + 1 + 3 * n, s[p] - 1,
                              << <<NoneN, <<c0, c1, c2>>>> >>, hasT, hasN)
             rest == DecodeFace(s, d.p, hasT, hasN)
         IN  [chains |-> <<d.chain>> \o rest.chains, p |-> rest.p]

\* C3: every face stream savemodel has written decodes to the chain list of
\* its object: the same chains in the same order, each triangle with the
\* same corners in the same order and the same flag, the terminator being
\* the last element of the stream.
C3_RoundTrip ==
    \A k \in 1..Len(faces) :
        err = "" =>
          LET d == DecodeFace(faces[k], 1, Len(texture) > 0, Len(normal) > 0)
          IN  d.chains = R[k] /\ d.p = Len(faces[k])

\* a stream with texcoord and normal fields holding a chain with a flag-1
\* entry has been written, and one of a chain of three triangles
C3_Witness ==
    /\ pc = "done"
    /\ \/ /\ Len(texture) > 0 /\ Len(normal) > 0
          /\ \E k \in 1..Len(R) : \E c \in Range(R[k]) :
               Len(c) = 2 /\ c[2][1] = 1
       \/ \E k \in 1..Len(R) : \E c \in Range(R[k]) :
               Len(c) = 3 /\ c[2][1] = 0 /\ c[3][1] = 1

\* ---------------------------------------------------------------- C4
\* every attribute index of every corner of the chain lists
AllRefs(RR, index) ==
    UNION {UNION {{c[k][2][1][index + 1], c[k][2][2][index + 1],
                   c[k][2][3][index + 1]} : k \in 1..Len(c)} :
           c \in UNION {Range(RR[o]) : o \in 1..Len(RR)}}

\* the place of the first occurrence of a in the sequence use
FirstPlace(use, a) ==
    CHOOSE k \in 1..Len(use) :
        use[k] = a /\ \A j \in 1..(k - 1) : use[j] # a

\* the walk of the claims: objects in order, chains in order, the three
\* corners of the first triangle of a chain, the third corner of each later
\* one
RECURSIVE WalkChains(_, _, _)
WalkChains(O, k, index) ==
    IF k > Len(O) THEN <<>>
    ELSE <<O[k][1][2][1][index + 1], O[k][1][2][2][index + 1],
           O[k][1][2][3][index + 1]>>
         \o [j \in 1..(Len(O[k]) - 1) |-> O[k][j + 1][2][3][index + 1]]
         \o WalkChains(O, k + 1, index)

RECURSIVE Walk(_, _, _)
Walk(RR, o, index) ==
    IF o > Len(RR) THEN <<>>
    ELSE WalkChains(RR[o], 1, index) \o Walk(RR, o + 1, index)

\* vi is a permutation of the positions of ar, the positions referenced
\* in RR first, in the order of their first use, the others after them
FirstUsePermutation(vi, ar, RR, index) ==
    LET refs == AllRefs(RR, index)
        use == Walk(RR, 1, index)
    IN  /\ Len(vi) = Len(ar)
        /\ Range(vi) = 0..(Len(ar) - 1)
        /\ \A i, j \in 1..Len(vi) :
             i < j =>
               /\ vi[j] \in refs => vi[i] \in refs
               /\ (vi[i] \in refs /\ vi[j] \in refs) =>
                     FirstPlace(use, vi[i]) < FirstPlace(use, vi[j])

Referenced(RR, index) == \E a \in AllRefs(RR, index) : a >= 0

\* C4: for an attribute array referenced by at least one corner,
\* orderByFirstUse returns (no error) a list vi that holds every position
\* 0..len(array)-1 exactly once, the referenced positions first, in the
\* order of their first use, the unreferenced ones after them.
C4_Bijection ==
    [][/\ (pc = "renumber_v" /\ Referenced(R, 0)) =>
             (pc' # "error" /\ FirstUsePermutation(vi_v', vertice, R, 0))
       /\ (pc = "renumber_t" /\ Referenced(R, 1)) =>
             (pc' # "error" /\ FirstUsePermutation(vi_t', texture, R, 1))
       /\ (pc = "renumber_n" /\ Referenced(R, 2)) =>
             (pc' # "error" /\ FirstUsePermutation(vi_n', normal, R, 2))]_vars

\* the three permutations are computed, the vertex one is not the identity
\* and ends with unreferenced positions, the texcoord one exchanges 0 and 1
C4_Witness ==
    /\ pc = "save"
    /\ \/ /\ vi_v # Iota(Len(vi_v))
          /\ Len(vertice) < Len(vi_v)
          /\ Len(vi_v) = 10
       \/ vi_t = <<1, 0>> /\ Len(vi_n) = 2

\* ---------------------------------------------------------------- C5
Renumbered == pc \in {"save", "open", "faces", "done"}

\* every index of the walk is 0 or has its predecessor earlier in the walk
NeverSkips(use) ==
    \A p \in 1..Len(use) :
        /\ use[p] >= 0
        /\ use[p] > 0 => \E j \in 1..(p - 1) : use[j] = use[p] - 1

Present(index) ==
    IF index = 0 THEN vertice # <<>>
    ELSE IF index = 1 THEN texture # <<>>
    ELSE normal # <<>>

\* C5: after reorderVNTarrays, for every attribute the corners carry, walking
\* objects in order, chains in order, the three corners of a chain's first
\* triangle and the third corner of each later one, index k is never met
\* before index k-1.
C5_FirstUse ==
    Renumbered =>
        \A index \in 0..2 : Present(index) => NeverSkips(Walk(R, 1, index))

\* renumbering is over for a mesh whose vertex indices were first used out
\* of order and which has a chain of two triangles or more
C5_Witness ==
    /\ pc = "save"
    /\ vi_v # Iota(Len(vi_v))
    /\ \E k \in 1..Len(R) : \E c \in Range(R[k]) : Len(c) >= 2
    /\ Len(R) = 2

\* ---------------------------------------------------------------- C6
\* the entries of an attribute array the input triangles reference
InputRefs(index) ==
    {a \in UNION {UNION {{t[1][index + 1], t[2][index + 1], t[3][index + 1]} :
                         t \in Range(obj[o])} : o \in 1..Len(obj)} : a >= 0}

ArrayOf(index) ==
    IF index = 0 THEN vertice ELSE IF index = 1 THEN texture ELSE normal

\* C6: after reorderVNTarrays the indices the corners reference are exactly
\* 0..k-1 and the array has exactly k entries, k being the number of distinct
\* entries the input referenced; the 10-entry vertex array referenced at 2, 5
\* and 7 ends as these three entries, renumbered 0, 1, 2.
C6_TrimResult ==
    Renumbered =>
        /\ \A index \in 0..2 :
             LET k == Cardinality(InputRefs(index))
             IN  /\ {a \in AllRefs(R, index) : a >= 0} = 0..(k - 1)
                 /\ Len(ArrayOf(index)) = k
        /\ obj = TrimExample.obj =>
             /\ vertice = <<2, 5, 7>>
             /\ R[1][1][1][2] = <<<<0, -1, -1>>, <<1, -1, -1>>, <<2, -1, -1>>>>

\* the example of the claim has been renumbered and trimmed
C6_Witness ==
    /\ pc = "save"
    /\ obj = TrimExample.obj
    /\ Len(vi_v) = 10
    /\ Len(vertice) = 3

\* ---------------------------------------------------------------- C8
\* C8: the "wrong count" error is never reached, and the face array just
\* written holds exactly the declared number tl of elements, which is also
\* the count nbw of savemodel.
C8_ElementCount ==
    /\ err # "savemodel() wrong count !"
    /\ (pc \in {"faces", "done"} /\ Len(faces) > 0) =>
          /\ Len(faces[Len(faces)]) = tl
          /\ nbw = tl

\* a face array with texcoord and normal fields is written for an object
\* with a chain of two triangles
C8_Witness ==
    /\ pc = "done"
    /\ Len(texture) > 0 /\ Len(normal) > 0
    /\ \E k \in 1..Len(R) : \E c \in Range(R[k]) : Len(c) = 2

\* ---------------------------------------------------------------- C7
\* C7: reorderVNTarrays run a second time, on what its first run left,
\* completes; for each of the three attributes it computes the identity
\* permutation (the empty one for an absent attribute) and changes no array,
\* no array length and no stored index.
C7_Idempotent ==
    [][(pc \in {"save", "again_t", "again_n"} /\ pc' # pc) =>
          /\ pc' # "error"
          /\ pc = "save" => vi_v' = Iota(Len(vertice))
          /\ pc = "again_t" => vi_t' = Iota(Len(texture))
          /\ pc = "again_n" => vi_n' = Iota(Len(normal))
          /\ UNCHANGED <<vertice, texture, normal, R>>]_vars

\* the second run is over for a mesh the first run trimmed and renumbered
\* (the first stored triangle is no longer the input one), chains included
C7_Witness ==
    /\ pc = "again"
    /\ vi_v = Iota(Len(vertice))
    /\ texture = <<>> /\ normal = <<>>
    /\ Len(vertice) < MaxV
    /\ \E k \in 1..Len(R) : \E c \in Range(R[k]) : Len(c) >= 2
    /\ R[1][1][1][2] \notin Rotations(obj[1][1])

\* ---------------------------------------------------------------- C9
\* the chains O[lo..hi], written from offset off of the face array F with
\* elem fields per corner: the element that opens a chain is its length, 1
\* at least, and the vertex field x of every triangle after the first gives
\* back the flag as x div 32768 and the vertex index as x mod 32768
RECURSIVE LinksRecovered(_, _, _, _, _, _)
LinksRecovered(O, F, lo, hi, off, elem) ==
    IF lo > hi THEN TRUE
    ELSE IF lo = hi
    THEN LET c == O[lo]
         IN  /\ F[off + 1] = Len(c)
             /\ F[off + 1] >= 1
             /\ \A k \in 2..Len(c) :
                  LET x == F[off + 2 + (k + 1) * elem]
                  IN  /\ x \div 32768 = c[k][1]
                      /\ x % 32768 = c[k][2][3][1]
    ELSE LET mid == (lo + hi) \div 2
         IN  /\ LinksRecovered(O, F, lo, mid, off, elem)
             /\ LinksRecovered(O, F, mid + 1, hi,
                               off + ChainsSize(O, lo, mid, elem), elem)

\* C9: every element of every face array savemodel has written is an
\* integer of 0..65535, every chain-length element is 1 at least, and the
\* vertex field of every triangle that is not the first of its chain gives
\* back its flag (div 32768) and its vertex index (mod 32768).
C9_WireFormat ==
    \A o \in 1..Len(faces) :
        /\ \A i \in 1..Len(faces[o]) : faces[o][i] \in 0..65535
        /\ LinksRecovered(R[o], faces[o], 1, Len(R[o]), 0,
                          ElemSize(texture, normal))

\* savemodel is over for a mesh of 32767 vertices whose last triangle is
\* written with flag 1 and the last vertex: the field is 32766 + 32768
C9_Witness ==
    /\ pc = "done"
    /\ Len(vertice) = 32767
    /\ LET c == R[1][Len(R[1])]
       IN  /\ Len(c) = 2
           /\ c[Len(c)][1] = 1
           /\ c[Len(c)][2][3][1] = 32766
    /\ faces[1][Len(faces[1]) - 1] = 65534

\* --------------------------------------------------------------- C10
\* an array is longer than its limit
LimitExceeded ==
    \/ Len(vertice) > 32767
    \/ Len(texture) > 65535
    \/ Len(normal) > 65535

LimitMessages ==
    {"Model has too many vertices", "Model has too many texture coords",
     "Model has too many normals"}

\* C10: with more than 32767 vertices, 65535 texcoords or 65535 normals,
\* the only step savemodel takes is the report of a limit error, after which
\* the run is over: the file is never opened and nothing is ever written.
C10_LimitErrors ==
    /\ [](LimitExceeded => /\ pc \in {"save", "error"}
                           /\ pc = "error" => err \in LimitMessages
                           /\ ~fopen
                           /\ ~fhead
                           /\ faces = <<>>
                           /\ info = <<>>)
    /\ [][(LimitExceeded /\ pc = "save") =>
             (pc' = "error" /\ err' \in LimitMessages)]_vars

\* the run ended on the error for 32768 vertices, nothing opened or written
C10_Witness ==
    /\ pc = "error"
    /\ Len(vertice) = 32768
    /\ err = "Model has too many vertices"
    /\ ~fopen
    /\ faces = <<>>

\* --------------------------------------------------------------- C11
\* the messages of the consistency checks of the chain builder: lines 429
\* and 435, edgeAfter (line 45) and rotateTriangleStartEdge (line 67)
BuilderMessages ==
    {"wrong next edge...", "edge not found...",
     "error in edgeAfter, edge not found",
     "error in rotateTriangleStartEdge, edge not found"}

\* C11: reorderObjectTriangles never reaches one of its consistency errors,
\* whatever the triangles (repeated corners, edges shared by more than two
\* triangles).  The code does: three triangles that repeat a corner, such as
\* (0,0,1), (0,0,2), (0,0,0), end on "wrong next edge...".
C11_NoBuilderError == err \notin BuilderMessages

\* --------------------------------------------------------------- C12
\* the messages of the consistency checks of reorderVNTarrays: lines 469,
\* 473, 481, 483, 485, 488 (orderByFirstUse) and 533, 539, 542 (trim)
RenumberMessages ==
    {"reorderVNTarrays, vi should be [-1]",
     "reorderVNTarrays, wrong size for vi",
     "reorderVNTarrays, negative index",
     "reorderVNTarrays, index too large",
     "reorderVNTarrays, index found twice",
     "reorderVNTarrays, hum.. impossible !",
     "array reordering was incorrect !",
     "index out of bounds (should not be possible)"}

\* C12: for every mesh the loader accepts, arrays with entries no face
\* refers to included, reorderVNTarrays reaches none of its consistency
\* errors.  The code does: with a vt (or vn) line in the file and no
\* texcoord (normal) index in any face, orderByFirstUse ends on "negative
\* index".
C12_NoRenumberError == err \notin RenumberMessages

\* --------------------------------------------------------------- C13
\* no directed edge of a triangle of o is the inverse of a directed edge of
\* another triangle of o
Disconnected(o) ==
    \A i, j \in 1..Len(o) :
        i # j => \A a, b \in 0..2 : edge(o[i], a) # <<edge(o[j], b)[2], edge(o[j], b)[1]>>

\* C13: for an object none of whose triangles has a directed edge that is
\* the inverse of a directed edge of another of its triangles,
\* reorderObjectTriangles returns one chain of length 1 per triangle, in the
\* order of the input, each holding its triangle as it was given.
C13_SingleChains ==
    Returned =>
        \A k \in 1..Len(R) :
            Disconnected(obj[k]) =>
                R[k] = [i \in 1..Len(obj[k]) |-> << <<NoneN, obj[k][i]>> >>]

\* three different triangles with three corners each and no inverse edge
\* among them have been returned as three chains
C13_Witness ==
    /\ pc = "renumber_v"
    /\ \E k \in 1..Len(R) :
         /\ Len(obj[k]) = 3
         /\ Cardinality(Range(obj[k])) = 3
         /\ \A i \in 1..3 : Cardinality(Range(obj[k][i])) = 3
         /\ Disconnected(obj[k])
         /\ Len(R[k]) = 3
         /\ \A c \in 1..3 : Len(R[k][c]) = 1

\* --------------------------------------------------------------- C14
\* the vertex indices the chains of O refer to
VerticesOf(O) == {O[p[1]][p[2]][2][j][1] : p \in Places(O), j \in 1..3}

\* C14: for the cube, whatever the diagonals of its faces and the order of
\* its triangles in the file, no error is reached, reorderObjectTriangles
\* returns at most 6 chains that hold the 12 triangles once each, and
\* reorderVNTarrays leaves a vertex array of 8 entries, the 8 vertices of
\* the file in some order, to which the chains refer as 0..7.
C14_Cube ==
    /\ pc # "error"
    /\ pc = "renumber_v" =>
          /\ Len(R) = 1
          /\ Len(R[1]) <= 6
          /\ SameTriangles(obj[1], R[1])
    /\ pc = "save" =>
          /\ Len(R[1]) <= 6
          /\ nbT(R[1]) = 12
          /\ Len(vertice) = 8
          /\ Range(vertice) = 0..7
          /\ Range(vi_v) = 0..7
          /\ VerticesOf(R[1]) = 0..7

\* the cube has been chained and renumbered: three chains, the vertices in
\* another order than in the file
C14_Witness ==
    /\ pc = "save"
    /\ Len(obj[1]) = 12
    /\ Len(R[1]) = 3
    /\ Len(vertice) = 8
    /\ vertice # Iota(8)

\* --------------------------------------------------------------- C15
\* the edge of its seed through which the second triangle of the chain c was
\* attached: the second triangle is stored from the inverse of that edge
SharedWithSeed(c) == <<c[2][2][2], c[2][2][1]>>

\* C15 as stated: when a chain of two triangles or more is closed, a seed S
\* whose second triangle was attached through its third edge (S[2], S[0]) is
\* stored as a cyclic shift of S that starts with the shared edge, and any
\* other seed is stored as it was.  The code does the opposite.
C15_ThirdEdgeFirst ==
    [][(pc = "close" /\ Len(C) > 1) =>
          LET S == C[1][2]
              S2 == C'[1][2]
          IN  IF SharedWithSeed(C) = <<S[3], S[1]>>
              THEN /\ S2 \in Rotations(S)
                   /\ <<S2[1], S2[2]>> = SharedWithSeed(C)
              ELSE S2 = S]_vars

\* C15, amended: when a chain of two triangles or more is closed, a seed S
\* whose second triangle was attached through its first edge (S[0], S[1]),
\* that edge being no other edge of S, is stored as (S[1], S[2], S[0]): the
\* shared edge is the third edge of the stored seed and the flag of the
\* second triangle is 0.  Any other seed is stored as it was.  Nothing else
\* of the chain changes.
C15_SeedShift ==
    [][(pc = "close" /\ Len(C) > 1) =>
          LET S == C[1][2]
              S2 == C'[1][2]
              sh == SharedWithSeed(C)
          IN  /\ IF sh = <<S[1], S[2]>> /\ sh \notin {<<S[3], S[1]>>, <<S[2], S[3]>>}
                 THEN /\ S2 = <<S[2], S[3], S[1]>>
                      /\ <<S2[3], S2[1]>> = sh
                      /\ C'[2][1] = 0
                 ELSE /\ S2 = S
                      /\ C'[2][1] = C[2][1]
              /\ Len(C') = Len(C)
              /\ C'[2][2] = C[2][2]
              /\ \A k \in 3..Len(C) : C'[k] = C[k]]_vars

\* a chain has been closed whose seed, of three different corners, is the
\* shift (S[1], S[2], S[0]) of a triangle S of the file that is not in the
\* file itself, the second triangle sharing the third edge of the stored seed
C15_Witness ==
    /\ pc = "chain"
    /\ Len(C) > 1
    /\ Cardinality(Range(C[1][2])) = 3
    /\ C[1][2] \notin Range(obj[oi + 1])
    /\ <<C[1][2][3], C[1][2][1], C[1][2][2]>> \in Range(obj[oi + 1])
    /\ C[2][1] = 0
    /\ SharedWithSeed(C) = <<C[1][2][3], C[1][2][1]>>

\* --------------------------------------------------------------- C16
\* some triangle that is still available has the directed edge e
Exposed(e) ==
    \E i \in 1..Len(availT) :
        availT[i] # NoneT /\ \E a \in 0..2 : edge(availT[i], a) = e

\* the last triangle of the chain under construction, as stored
LastStored == C[Len(C)][2]

\* the iteration has appended a triangle that starts with the inverse of e
AttachedThrough(e) ==
    /\ Len(C') = Len(C) + 1
    /\ <<C'[Len(C')][2][1], C'[Len(C')][2][2]>> = invertEdge(e)

\* the iteration has ended the chain as it was
ChainEnded == pc' = "close" /\ C' = C

\* C16 as stated: in an iteration on a chain of two triangles or more, only
\* the edge after the shared one, (L[1], L[2]) of the last stored triangle L,
\* counts: a triangle is appended through it, and the chain ends as it is
\* when no available triangle has its inverse.  The code goes on to the
\* third edge.
C16_OneLookup ==
    [][(pc = "extend" /\ Len(C) > 1 /\ Len(C) < MAXCHAINLEN) =>
          LET L == LastStored
          IN  /\ pc' = "extend" => AttachedThrough(<<L[2], L[3]>>)
              /\ ~Exposed(invertEdge(<<L[2], L[3]>>)) => ChainEnded]_vars

\* C16, amended: in an iteration on a chain of two triangles or more the
\* two edges after the shared one are tried in order, (L[1], L[2]) then
\* (L[2], L[0]) of the last stored triangle L: the chain never ends while an
\* available triangle has the inverse of one of them, a triangle is appended
\* through the first of them that has one, and the chain ends as it is when
\* none has.  A chain of the seed S alone tries (S[0], S[1]), (S[1], S[2])
\* and then, as a third edge, (S[2], S[0]).
C16_TwoLookups ==
    [][(pc = "extend" /\ Len(C) < MAXCHAINLEN) =>
          LET L == LastStored
              e1 == IF Len(C) > 1 THEN <<L[2], L[3]>> ELSE <<L[1], L[2]>>
              e2 == IF Len(C) > 1 THEN <<L[3], L[1]>> ELSE <<L[2], L[3]>>
              e3 == <<L[3], L[1]>>
          IN  IF Exposed(invertEdge(e1))
              THEN pc' # "close" /\ (pc' = "extend" => AttachedThrough(e1))
              ELSE IF Exposed(invertEdge(e2))
              THEN pc' # "close" /\ (pc' = "extend" => AttachedThrough(e2))
              ELSE IF Len(C) > 1
              THEN ChainEnded
              ELSE IF Exposed(invertEdge(e3))
              THEN pc' # "close" /\ (pc' = "extend" => AttachedThrough(e3))
              ELSE ChainEnded]_vars

\* a chain of three triangles whose third triangle was appended through the
\* second edge tried, (L[2], L[0]) of the second one (flag 0), the three
\* triangles having three different corners each
C16_Witness ==
    /\ pc = "extend"
    /\ Len(C) = 3
    /\ C[3][1] = 0
    /\ \A k \in 1..3 : Cardinality(Range(C[k][2])) = 3
    /\ <<C[3][2][1], C[3][2][2]>> = <<C[2][2][1], C[2][2][3]>>

\* --------------------------------------------------------------- C17
\* the vertex positions that the directed edge e goes through
VertexPair(e) == <<e[1][1], e[2][1]>>

\* some available triangle goes through the vertex positions of e, in the
\* direction of e, whatever its texcoord and normal indexes there
VertexExposed(e) ==
    \E i \in 1..Len(availT) :
        availT[i] # NoneT /\
        \E a \in 0..2 : VertexPair(edge(availT[i], a)) = VertexPair(e)

\* the locals that findTriangleWithEdge works on
LookupState ==
    [TT |-> NoneT, availT |-> availT, dicedge |-> dicedge, nbTavail |-> nbTavail]

\* the inverses of the edges of the available triangles
InverseEdges ==
    {invertEdge(edge(availT[i], a)) :
        i \in {j \in 1..Len(availT) : availT[j] # NoneT}, a \in 0..2}

\* C17 as stated: at every point of the chain building, when two different
\* available triangles go through the same two vertex positions in opposite
\* directions, the lookup of the inverse of that edge of the one finds a
\* triangle, whatever the other indexes of the corners.  The lookup compares
\* whole corners.
C17_VertexPairs ==
    pc \in {"chain", "extend", "close"} =>
        \A i, j \in 1..Len(availT) : \A a, b \in 0..2 :
            (/\ i # j
             /\ availT[i] # NoneT
             /\ availT[j] # NoneT
             /\ VertexPair(edge(availT[j], b))
                    = VertexPair(invertEdge(edge(availT[i], a))))
            => findTriangleWithEdge(invertEdge(edge(availT[i], a)),
                                    LookupState).TT # NoneT

\* C17, amended: at every point of the chain building, the lookup of the
\* inverse e of an edge of an available triangle finds an available triangle
\* with the edge e, equal corner for corner in vertex, texcoord and normal
\* index, when there is one, and finds nothing when there is none, a
\* triangle through the same vertex positions with another texcoord or normal
\* index included.
C17_FullCorners ==
    pc \in {"chain", "extend", "close"} =>
        \A e \in InverseEdges :
            LET found == findTriangleWithEdge(e, LookupState).TT
            IN  IF Exposed(e)
                THEN /\ found \in Range(availT) \ {NoneT}
                     /\ \E b \in 0..2 : edge(found, b) = e
                ELSE found = NoneT

\* a chain has ended with its seed alone although an available triangle
\* goes through the vertex positions of an edge of the seed in the opposite
\* direction: the corners differ in the texcoord or the normal index
C17_Witness ==
    /\ pc = "close"
    /\ Len(C) = 1
    /\ \E a \in 0..2 :
          /\ VertexExposed(invertEdge(edge(C[1][2], a)))
          /\ ~Exposed(invertEdge(edge(C[1][2], a)))
          /\ edge(C[1][2], a)[1][1] # edge(C[1][2], a)[2][1]

\* --------------------------------------------------------------- C18
\* the chain lists RR and R2 have the same objects, chains, chain lengths
\* and flags
SameShape(RR, R2) ==
    /\ Len(R2) = Len(RR)
    /\ \A o \in 1..Len(RR) :
          /\ Len(R2[o]) = Len(RR[o])
          /\ \A c \in 1..Len(RR[o]) :
                /\ Len(R2[o][c]) = Len(RR[o][c])
                /\ \A k \in 1..Len(RR[o][c]) : R2[o][c][k][1] = RR[o][c][k][1]

\* every corner of R2 refers, for attribute index, to the entry of a2 that
\* the corner at the same place of RR refers to in ar, and has the indexes
\* of RR for the other two attributes
SameReferents(ar, RR, a2, R2, index) ==
    \A o \in 1..Len(RR) : \A c \in 1..Len(RR[o]) :
      \A k \in 1..Len(RR[o][c]) : \A j \in 1..3 :
        LET old == RR[o][c][k][2][j]
            new == R2[o][c][k][2][j]
        IN  /\ ar # <<>> =>
                 /\ old[index + 1] \in 0..(Len(ar) - 1)
                 /\ new[index + 1] \in 0..(Len(a2) - 1)
                 /\ a2[new[index + 1] + 1] = ar[old[index + 1] + 1]
            /\ \A i \in (0..2) \ {index} : new[i + 1] = old[i + 1]

\* C18: each of the three renumberings that returns keeps what every corner
\* refers to: the entry of the new array at the new index of a corner is the
\* entry of the old array at its old index, for a non-empty array; objects,
\* chains, chain lengths, corner order and flags are as before, the indexes
\* of the other two attributes are as before, and so are the other two
\* arrays.
C18_Referents ==
    [][/\ (pc = "renumber_v" /\ pc' = "renumber_t") =>
             /\ SameShape(R, R')
             /\ SameReferents(vertice, R, vertice', R', 0)
             /\ UNCHANGED <<texture, normal>>
       /\ (pc = "renumber_t" /\ pc' = "renumber_n") =>
             /\ SameShape(R, R')
             /\ SameReferents(texture, R, texture', R', 1)
             /\ UNCHANGED <<vertice, normal>>
       /\ (pc = "renumber_n" /\ pc' = "save") =>
             /\ SameShape(R, R')
             /\ SameReferents(normal, R, normal', R', 2)
             /\ UNCHANGED <<vertice, texture>>]_vars

\* the three renumberings are done, the vertex array and the normal array
\* were permuted in a cycle of three and a corner of a chain has a vertex
\* index that is not the position its entry had in the file
C18_Witness ==
    /\ pc = "save"
    /\ Len(vi_v) = 3
    /\ \A i \in 1..3 : vi_v[i] # i - 1
    /\ vertice = vi_v
    /\ normal = vi_n
    /\ normal = vertice
    /\ \E p \in Places(R[1]) : \E j \in 1..3 :
          vertice[R[1][p[1]][p[2]][2][j][1] + 1] # R[1][p[1]][p[2]][2][j][1]

\* --------------------------------------------------------------- C19
\* control is inside a call of reorderObjectTriangles
InCall == pc \in {"chain", "extend", "close"}

\* the triangles of the object that no chain holds yet
NotPlaced ==
    Len(obj[oi + 1]) - nbT(Rc) - (IF pc \in {"extend", "close"} THEN Len(C) ELSE 0)

\* what is left to do in a call: three steps at most for each available
\* triangle, two to end the chain under construction
Variant ==
    3 * nbTavail + (IF pc = "extend" THEN 2 ELSE IF pc = "close" THEN 1 ELSE 0)

\* C19: every call of reorderObjectTriangles ends, by its return or by the
\* exit of error("wrong next edge...") (C11), and never by an IndexError of
\* the scan of getNextTriangle; every step of a call that does not end it
\* brings the end nearer; at every iteration of the call nbTavail is the
\* number of triangles that are still available, which is the number of
\* triangles not yet placed in a chain; the call returns only when no
\* triangle is available.
C19_Termination ==
    /\ [](InCall =>
            /\ nbTavail = Cardinality({i \in 1..Len(availT) : availT[i] # NoneT})
            /\ nbTavail = NotPlaced)
    /\ [](err # "IndexError: list index out of range")
    /\ [][(pc = "chain" /\ pc' \in {"reorder", "renumber_v"}) =>
             /\ \A i \in 1..Len(availT) : availT[i] = NoneT
             /\ nbT(Rc) = Len(obj[oi + 1])]_vars
    /\ [][InCall => (pc' \in {"reorder", "renumber_v", "error"} \/ Variant' < Variant)]_vars
    /\ (InCall ~> (pc \in {"reorder", "renumber_v"} \/ err = "wrong next edge..."))

\* a call has returned two chains for three triangles: for the second seed
\* getNextTriangle has scanned over the two used triangles to the third, and
\* it has stopped the call at the count 0
C19_Witness ==
    /\ pc = "renumber_v"
    /\ Len(R) = 1
    /\ Len(obj[1]) = 3
    /\ Len(R[1]) = 2
    /\ Len(R[1][1]) = 2
    /\ R[1][2][1][2] = obj[1][3]

\* --------------------------------------------------------------- C20
\* the step has taken the triangle t of the file out of the available ones
TakenFromFile(t) ==
    \E i \in 1..Len(availT) :
        /\ availT[i] = t
        /\ t # NoneT
        /\ obj[oi + 1][i] = t
        /\ availT' = [availT EXCEPT ![i] = NoneT]

\* C20: a triangle enters a chain as a cyclic rotation of the triangle of
\* the file that the step takes (the seed as it is in the file), the close
\* of a chain replaces every triangle of it by a cyclic rotation of itself
\* (the seed shift) and hands the chain over as it is, and the return hands
\* the chains over as they are: no step reverses the corner order of a
\* triangle, so every stored triangle is a rotation of the one it came from.
C20_Winding ==
    [][/\ (pc = "chain" /\ pc' = "extend") =>
             /\ TakenFromFile(T')
             /\ C' = << <<NoneN, T'>> >>
       /\ (pc = "extend" /\ pc' = "extend") =>
             /\ TakenFromFile(T')
             /\ Len(C') = Len(C) + 1
             /\ SubSeq(C', 1, Len(C)) = C
             /\ C'[Len(C')][2] \in Rotations(T')
       /\ (pc = "extend" /\ pc' = "close") => C' = C
       /\ pc = "close" =>
             /\ Len(C') = Len(C)
             /\ \A k \in 1..Len(C) : C'[k][2] \in Rotations(C[k][2])
             /\ Rc' = Append(Rc, C')
       /\ pc \in {"chain", "extend"} => Rc' = Rc \/ pc' \in {"reorder", "renumber_v"}
       /\ (pc = "chain" /\ pc' \in {"reorder", "renumber_v"}) => R' = Append(R, Rc)
       /\ pc \in {"reorder", "extend", "close"} => R' = R]_vars

\* a chain has been closed whose shifted seed and whose second triangle are
\* in the file in another rotation only, each with three different corners
C20_Witness ==
    /\ pc = "chain"
    /\ Len(C) = 2
    /\ Rc # <<>>
    /\ Rc[Len(Rc)] = C
    /\ \A k \in 1..2 :
          /\ Cardinality(Range(C[k][2])) = 3
          /\ C[k][2] \notin Range(obj[oi + 1])
          /\ Rotations(C[k][2]) \cap Range(obj[oi + 1]) # {}

\* --------------------------------------------------------------- C21
\* the edges of its last triangle through which the chain c could go on:
\* the three edges of a seed alone, the two edges after the shared one of a
\* later triangle
CandidateEdges(c) ==
    LET L == c[Len(c)][2]
    IN  IF Len(c) = 1
        THEN {<<L[1], L[2]>>, <<L[2], L[3]>>, <<L[3], L[1]>>}
        ELSE {<<L[2], L[3]>>, <<L[3], L[1]>>}

\* C21: when the inner loop has ended a chain of fewer than 65535 triangles,
\* no triangle that is still available has a directed edge equal to the
\* inverse of a candidate edge of the last triangle of the chain.
C21_Maximal ==
    (pc = "close" /\ Len(C) < MAXCHAINLEN) =>
        \A e \in CandidateEdges(C) :
            \A i \in 1..Len(availT) : \A a \in 0..2 :
                availT[i] # NoneT => edge(availT[i], a) # invertEdge(e)

\* a chain of two triangles has ended while a triangle is still available,
\* and a used triangle stands in the lookup list of the inverse of a
\* candidate edge
C21_Witness ==
    /\ pc = "close"
    /\ Len(C) = 2
    /\ nbTavail > 0
    /\ \A k \in 1..2 : Cardinality(Range(C[k][2])) = 3
    /\ \E e \in CandidateEdges(C) :
          \E i \in 1..Len(availT) : \E a \in 0..2 :
              availT[i] = NoneT /\ edge(obj[oi + 1][i], a) = invertEdge(e)

====
